---- MODULE Spec2Model ----
(***************************************************************************)
(* Model of the two Windows build drivers of vnelogging:                   *)
(*   src/scripts/build_windows.py                         ("vnelogging")   *)
(*   src/deps/internal/vnecommon/scripts/build_windows.py ("vnecommon")    *)
(* One run of one script is one behaviour.  The command line, the prior    *)
(* state of the build output directory, the answers typed at the prompts   *)
(* and the outcome of every external tool are inputs.  Text values that    *)
(* the scripts strip, lower-case or convert with int() are sequences of    *)
(* one-character strings, so that those conversions are computed.          *)
(***************************************************************************)
EXTENDS Integers, Sequences, FiniteSets, TLC

VARIABLES script, pc, argv, config, common, answer, build_dir, dir0, calls,
          compiler_version, raised, msg, exitCode

vars == <<script, pc, argv, config, common, answer, build_dir, dir0, calls,
          compiler_version, raised, msg, exitCode>>

(* ------------------------------ bounds --------------------------------- *)

\* longest answer typed at the parallel-jobs prompt
MaxAnswerLen == 2

(* -------------------------- Python text helpers ------------------------ *)

Digits == {"0", "3"}

\* characters that can be typed at the parallel-jobs prompt
JobChars == Digits \cup {"-", "x", " "}

RECURSIVE StringsUpTo(_, _)
StringsUpTo(chars, n) ==
    IF n = 0 THEN {<<>>}
    ELSE LET shorter == StringsUpTo(chars, n - 1)
         IN  shorter \cup {Append(s, c) : s \in shorter, c \in chars}

RECURSIVE lstrip(_)
lstrip(s) == IF s # <<>> /\ Head(s) = " " THEN lstrip(Tail(s)) ELSE s

RECURSIVE rstrip(_)
rstrip(s) ==
    IF s # <<>> /\ s[Len(s)] = " " THEN rstrip(SubSeq(s, 1, Len(s) - 1)) ELSE s

\* str.strip()
strip(s) == rstrip(lstrip(s))

\* str.lower() on the letters that occur in answers
lower(s) == [i \in DOMAIN s |-> CASE s[i] = "Y" -> "y"
                                  [] s[i] = "N" -> "n"
                                  [] OTHER -> s[i]]

DigitVal(c) == IF c = "3" THEN 3 ELSE 0

RECURSIVE DigitsVal(_)
DigitsVal(s) ==
    IF s = <<>> THEN 0
    ELSE 10 * DigitsVal(SubSeq(s, 1, Len(s) - 1)) + DigitVal(s[Len(s)])

\* the unsigned part of an int() literal, after surrounding blanks are dropped
IntBody(s) ==
    LET t == strip(s) IN IF t # <<>> /\ Head(t) = "-" THEN Tail(t) ELSE t

\* int(s) raises ValueError unless s is blanks, an optional sign, digits, blanks
int_ok(s) == IntBody(s) # <<>> /\ \A i \in DOMAIN IntBody(s) : IntBody(s)[i] \in Digits

\* the value of int(s) when it does not raise
int(s) ==
    LET t == strip(s)
    IN  IF t # <<>> /\ Head(t) = "-" THEN 0 - DigitsVal(IntBody(s))
        ELSE DigitsVal(IntBody(s))

(* ------------------------------ inputs --------------------------------- *)

Scripts == {"vnelogging", "vnecommon"}

\* an optional command-line flag: <<>> when omitted, <<v>> when given as v
Opt(S) == {<<>>} \cup {<<v>> : v \in S}

BuildTypeChoices == {"Debug", "Release", "RelWithDebInfo", "MinSizeRel"}

ActionChoices == {"configure", "build", "configure_and_build", "test"}

DefaultJobs == 10

\* values tried for -t, -a and -j ("Profile" and x are rejected by argparse)
BuildTypeArgs == {"Release", "Profile"}

ActionArgs == {"configure", "build", "test"}

JobsArgs == {<<"3">>, <<"0">>, <<"-", "3">>, <<"x">>}

LoggingArgv ==
    [build_type : Opt(BuildTypeArgs), action : Opt(ActionArgs),
     jobs : Opt(JobsArgs), clean : BOOLEAN, interactive : BOOLEAN]

CommonArgv ==
    [release : BOOLEAN, debug : BOOLEAN, no_examples : BOOLEAN, clean : BOOLEAN]

\* outcome of launching an external tool: its exit status, or no executable
ToolOutcomes == {"zero", "nonzero", "FileNotFoundError"}

\* the build output directory: absent, or the set of things it contains
Absent == {"<absent>"}

InitialDirs == {Absent, {"stale"}}

BuildAnswers == {<<>>, <<"1">>, <<"2">>, <<"3">>, <<"4">>, <<" ", "2">>, <<"x">>}

ActionAnswers == {<<>>, <<"1">>, <<"2">>, <<"3">>, <<"3", " ">>, <<"4">>}

YesNoAnswers == {<<>>, <<"y">>, <<"Y">>, <<"n">>, <<"N">>, <<" ", "y">>}

JobsAnswers == StringsUpTo(JobChars, MaxAnswerLen)

\* no input() result is held (outside interactive_mode)
NoAnswer == <<"<none>">>

(* ------------------------------- state --------------------------------- *)

\* BuildConfig.__init__
BuildConfig ==
    [jobs |-> 10, build_type |-> "Debug", action |-> "configure_and_build",
     clean_build |-> FALSE, interactive |-> FALSE, platform |-> "Windows",
     compiler |-> "cl"]

NoCommon == [build_type |-> "unset", build_examples |-> "unset"]

Init ==
    /\ script \in Scripts
    /\ argv \in (IF script = "vnelogging" THEN LoggingArgv ELSE CommonArgv)
    /\ pc = "parse_args"
    /\ config = BuildConfig
    /\ common = NoCommon
    /\ answer = NoAnswer
    /\ build_dir \in InitialDirs
    /\ dir0 = build_dir
    /\ calls = <<>>
    /\ compiler_version = "unset"
    /\ raised = "none"
    /\ msg = "none"
    /\ exitCode = <<>>

\* sys.exit(code), or the interpreter ending after an uncaught exception
Exit(code, message, exc) ==
    /\ pc' = "exit"
    /\ exitCode' = <<code>>
    /\ msg' = message
    /\ raised' = exc

Call(tool, outcome) == Append(calls, [tool |-> tool, outcome |-> outcome])

(* --------------------- vnelogging: command line ------------------------- *)

\* parser.parse_args() ends the run with status 2 on a value outside the
\* choices of -t or -a, or a -j value that int() rejects
parse_error(av) ==
    \/ av.build_type # <<>> /\ av.build_type[1] \notin BuildTypeChoices
    \/ av.action # <<>> /\ av.action[1] \notin ActionChoices
    \/ av.jobs # <<>> /\ ~int_ok(av.jobs[1])

\* the namespace parse_args() returns: the value given, or the flag's default
parse_args(av) ==
    [build_type  |-> IF av.build_type = <<>> THEN "Debug" ELSE av.build_type[1],
     action      |-> IF av.action = <<>> THEN "configure_and_build" ELSE av.action[1],
     jobs        |-> IF av.jobs = <<>> THEN DefaultJobs ELSE int(av.jobs[1]),
     clean       |-> av.clean,
     interactive |-> av.interactive]

\* a copy that leaves out config.jobs = args.jobs
config_from_args_without_jobs(args) ==
    [BuildConfig EXCEPT !.build_type = args.build_type,
                        !.action = args.action,
                        !.clean_build = args.clean,
                        !.interactive = args.interactive]

\* main, lines 321-326: the namespace copied into a fresh BuildConfig
config_from_args(args) ==
    [BuildConfig EXCEPT !.build_type = args.build_type,
                        !.action = args.action,
                        !.jobs = args.jobs,
                        !.clean_build = args.clean,
                        !.interactive = args.interactive]

LoggingParseArgs ==
    IF parse_error(argv)
    THEN /\ Exit(2, "usage_error", "none")
         /\ UNCHANGED <<config, common>>
    ELSE /\ config' = config_from_args(parse_args(argv))
         /\ pc' = IF config'.interactive THEN "prompt_build_type"
                  ELSE "check_visual_studio_env"
         /\ UNCHANGED <<common, exitCode, msg, raised>>

\* vnecommon main, lines 70-83
CommonParseArgs ==
    /\ common' = [build_type     |-> IF argv.release THEN "Release" ELSE "Debug",
                  build_examples |-> IF argv.no_examples THEN "OFF" ELSE "ON"]
    /\ pc' = "build_dir"
    /\ UNCHANGED <<config, exitCode, msg, raised>>

ParseArgs ==
    /\ pc = "parse_args"
    /\ IF script = "vnelogging" THEN LoggingParseArgs ELSE CommonParseArgs
    /\ UNCHANGED <<script, argv, answer, build_dir, dir0, calls, compiler_version>>

(* --------------------- vnelogging: interactive_mode -------------------- *)

\* an else branch that keeps the build type of the command line
build_type_of_keeping_flag(build_choice) ==
    CASE build_choice = <<"2">> -> "Release"
      [] build_choice = <<"3">> -> "RelWithDebInfo"
      [] build_choice = <<"4">> -> "MinSizeRel"
      [] OTHER -> config.build_type

\* lines 136-143
build_type_of(build_choice) ==
    CASE build_choice = <<"2">> -> "Release"
      [] build_choice = <<"3">> -> "RelWithDebInfo"
      [] build_choice = <<"4">> -> "MinSizeRel"
      [] OTHER -> "Debug"

\* lines 152-157
action_of(action_choice) ==
    CASE action_choice = <<"1">> -> "configure"
      [] action_choice = <<"3">> -> "test"
      [] OTHER -> "configure_and_build"

\* lines 135-143
PromptBuildType ==
    /\ pc = "prompt_build_type"
    /\ \E typed \in BuildAnswers :
         /\ answer' = strip(typed)
         /\ config' = [config EXCEPT !.build_type = build_type_of(answer')]
    /\ pc' = "prompt_action"
    /\ UNCHANGED <<script, argv, common, build_dir, dir0, calls,
                   compiler_version, raised, msg, exitCode>>

\* lines 151-157
PromptAction ==
    /\ pc = "prompt_action"
    /\ \E typed \in ActionAnswers :
         /\ answer' = strip(typed)
         /\ config' = [config EXCEPT !.action = action_of(answer')]
    /\ pc' = "prompt_clean"
    /\ UNCHANGED <<script, argv, common, build_dir, dir0, calls,
                   compiler_version, raised, msg, exitCode>>

\* lines 161-163
PromptClean ==
    /\ pc = "prompt_clean"
    /\ \E typed \in YesNoAnswers :
         /\ answer' = strip(typed)
         /\ config' = IF lower(answer') = <<"y">>
                      THEN [config EXCEPT !.clean_build = TRUE]
                      ELSE config
    /\ pc' = "prompt_jobs"
    /\ UNCHANGED <<script, argv, common, build_dir, dir0, calls,
                   compiler_version, raised, msg, exitCode>>

\* an except branch that falls back to the built-in default
jobs_after_reset(jobs, jobs_input) ==
    IF jobs_input = <<>> THEN jobs
    ELSE IF int_ok(jobs_input) THEN int(jobs_input) ELSE DefaultJobs

\* lines 168-172: the value of config.jobs after the answer jobs_input
jobs_after(jobs, jobs_input) ==
    IF jobs_input # <<>> /\ int_ok(jobs_input) THEN int(jobs_input) ELSE jobs

\* lines 167-172
PromptJobs ==
    /\ pc = "prompt_jobs"
    /\ \E typed \in JobsAnswers :
         /\ answer' = strip(typed)
         /\ config' = [config EXCEPT !.jobs = jobs_after(config.jobs, answer')]
         /\ msg' = IF answer' # <<>> /\ ~int_ok(answer') THEN "invalid_input" ELSE msg
    /\ pc' = "prompt_proceed"
    /\ UNCHANGED <<script, argv, common, build_dir, dir0, calls,
                   compiler_version, raised, exitCode>>

\* lines 183-186
PromptProceed ==
    /\ pc = "prompt_proceed"
    /\ \E typed \in YesNoAnswers :
         IF lower(strip(typed)) = <<"n">>
         THEN /\ answer' = strip(typed)
              /\ Exit(0, "build_cancelled", "none")
         ELSE \* interactive_mode returns and its locals are gone
              /\ answer' = NoAnswer
              /\ pc' = "check_visual_studio_env"
              /\ UNCHANGED <<exitCode, msg, raised>>
    /\ UNCHANGED <<script, argv, config, common, build_dir, dir0, calls,
                   compiler_version>>

(* ------------------- vnelogging: toolchain checks ---------------------- *)

\* find_visual_studio probes vs_paths in order: six 2022 paths, then six 2019
vs_paths ==
    <<"2022", "2022", "2022", "2022", "2022", "2022",
      "2019", "2019", "2019", "2019", "2019", "2019">>

\* which of the twelve paths exist on the machine
Installations == {{}, {2}, {8}, {5, 7}, {12}}

\* find_visual_studio: the first existing path (here its release year) or None
find_visual_studio(installed) ==
    IF installed = {} THEN "None"
    ELSE vs_paths[CHOOSE i \in installed : \A j \in installed : i <= j]

\* check_visual_studio_env: only a missing executable counts as failure
check_visual_studio_env(outcome) == outcome # "FileNotFoundError"

\* check_cmake: check=True turns a non-zero status into CalledProcessError
check_cmake(outcome) == outcome = "zero"

\* a last path that only prints its advice and returns to main
setup_visual_studio_env_returning(installed, vsdevcmd_exists) ==
    IF find_visual_studio(installed) = "None"
    THEN Exit(1, "visual_studio_not_found", "none")
    ELSE IF ~vsdevcmd_exists
         THEN Exit(1, "vsdevcmd_not_found", "none")
         ELSE /\ pc' = "check_cmake"
              /\ msg' = "run_from_developer_prompt"
              /\ UNCHANGED <<exitCode, raised>>

\* setup_visual_studio_env leaves by sys.exit(1) on each of its three paths
setup_visual_studio_env(installed, vsdevcmd_exists) ==
    IF find_visual_studio(installed) = "None"
    THEN Exit(1, "visual_studio_not_found", "none")
    ELSE IF ~vsdevcmd_exists
         THEN Exit(1, "vsdevcmd_not_found", "none")
         ELSE Exit(1, "run_from_developer_prompt", "none")

\* main, lines 333-334
CheckVisualStudioEnv ==
    /\ pc = "check_visual_studio_env"
    /\ \E outcome \in ToolOutcomes :
         /\ calls' = Call("cl", outcome)
         /\ IF check_visual_studio_env(outcome)
            THEN /\ pc' = "check_cmake"
                 /\ UNCHANGED <<exitCode, msg, raised>>
            ELSE \E installed \in Installations, vsdevcmd_exists \in BOOLEAN :
                     setup_visual_studio_env(installed, vsdevcmd_exists)
    /\ UNCHANGED <<script, argv, config, common, answer, build_dir, dir0,
                   compiler_version>>

\* main, lines 337-341
CheckCmake ==
    /\ pc = "check_cmake"
    /\ \E outcome \in ToolOutcomes :
         /\ calls' = Call("cmake_version", outcome)
         /\ IF check_cmake(outcome)
            THEN /\ pc' = "get_compiler_version"
                 /\ UNCHANGED <<exitCode, msg, raised>>
            ELSE Exit(1, "cmake_not_found", "none")
    /\ UNCHANGED <<script, argv, config, common, answer, build_dir, dir0,
                   compiler_version>>

\* subprocess.run raises ValueError, before it starts any process, when
\* capture_output is combined with an explicit stdout or stderr
run_rejects(capture_output, stdout_given, stderr_given) ==
    capture_output /\ (stdout_given \/ stderr_given)

Banners == {"Version 19.38.33130", "usage"}

\* re.search(r"Version (\d+\.\d+\.\d+)", output)
banner_version(output) == IF output = "Version 19.38.33130" THEN "19.38.33130" ELSE "None"

\* get_compiler_version: what it raises, what it returns, whether cl was started
get_compiler_version(outcome, output, installed) ==
    IF run_rejects(TRUE, FALSE, TRUE)
    THEN [raises |-> "ValueError", value |-> "unset", started |-> FALSE]
    ELSE IF outcome # "FileNotFoundError" /\ banner_version(output) # "None"
         THEN [raises |-> "none", value |-> banner_version(output), started |-> TRUE]
         ELSE [raises |-> "none",
               value |-> IF find_visual_studio(installed) = "None" THEN "unknown"
                         ELSE find_visual_studio(installed),
               started |-> TRUE]

\* main, lines 344-357
GetCompilerVersion ==
    /\ pc = "get_compiler_version"
    /\ \E outcome \in ToolOutcomes, output \in Banners, installed \in Installations :
         LET r == get_compiler_version(outcome, output, installed)
         IN  /\ calls' = IF r.started THEN Call("cl", outcome) ELSE calls
             /\ compiler_version' = r.value
             /\ IF r.raises # "none"
                THEN Exit(1, "traceback", r.raises)
                ELSE /\ pc' = "build_dir"
                     /\ UNCHANGED <<exitCode, msg, raised>>
    /\ UNCHANGED <<script, argv, config, common, answer, build_dir, dir0>>

(* ---------------------- build output directory ------------------------- *)

exists(dir) == dir # Absent

\* shutil.rmtree
rmtree(dir) == Absent

\* Path.mkdir(parents=True, exist_ok=True)
mkdir(dir) == IF exists(dir) THEN dir ELSE {}

\* vnelogging clean_build_dir
clean_build_dir(dir) == mkdir(IF exists(dir) THEN rmtree(dir) ELSE dir)

\* vnelogging ensure_build_dir
ensure_build_dir(dir) == mkdir(dir)

\* vnecommon main, lines 86-91
common_build_dir(clean, dir) == mkdir(IF clean /\ exists(dir) THEN rmtree(dir) ELSE dir)

\* vnelogging main, lines 360-363, and vnecommon main, lines 86-91
PrepareBuildDir ==
    /\ pc = "build_dir"
    /\ build_dir' = IF script = "vnelogging"
                    THEN IF config.clean_build THEN clean_build_dir(build_dir)
                         ELSE ensure_build_dir(build_dir)
                    ELSE common_build_dir(argv.clean, build_dir)
    /\ pc' = "configure"
    /\ UNCHANGED <<script, argv, config, common, answer, dir0, calls,
                   compiler_version, raised, msg, exitCode>>

(* ------------------------ configure, build, test ----------------------- *)

\* what a tool that ran to a zero status leaves in the directory
Written(dir, outcome, what) == IF outcome = "zero" THEN dir \cup {what} ELSE dir

\* vnelogging main, lines 367-369, with configure_project: True on a zero
\* status, False on CalledProcessError, FileNotFoundError is not caught
LoggingConfigure(outcome) ==
    IF config.action \in {"configure", "build", "configure_and_build", "test"}
    THEN /\ calls' = Call("configure", outcome)
         /\ build_dir' = Written(build_dir, outcome, "build_files")
         /\ CASE outcome = "zero" -> /\ pc' = "build"
                                     /\ UNCHANGED <<exitCode, msg, raised>>
              [] outcome = "nonzero" -> Exit(1, "configuration_failed", "none")
              [] OTHER -> Exit(1, "traceback", "FileNotFoundError")
    ELSE /\ pc' = "build"
         /\ UNCHANGED <<calls, build_dir, exitCode, msg, raised>>

\* a configure step whose status is not looked at
CommonConfigureUnchecked(outcome) ==
    /\ calls' = Call("configure", outcome)
    /\ build_dir' = Written(build_dir, outcome, "build_files")
    /\ IF outcome = "FileNotFoundError"
       THEN Exit(1, "traceback", "FileNotFoundError")
       ELSE /\ pc' = "build"
            /\ UNCHANGED <<exitCode, msg, raised>>

\* vnecommon main, lines 103-105, with run_command: the status is returned,
\* FileNotFoundError is not caught
CommonConfigure(outcome) ==
    /\ calls' = Call("configure", outcome)
    /\ build_dir' = Written(build_dir, outcome, "build_files")
    /\ CASE outcome = "zero" -> /\ pc' = "build"
                                /\ UNCHANGED <<exitCode, msg, raised>>
         [] outcome = "nonzero" -> Exit(1, "configuration_failed", "none")
         [] OTHER -> Exit(1, "traceback", "FileNotFoundError")

Configure ==
    /\ pc = "configure"
    /\ \E outcome \in ToolOutcomes :
         IF script = "vnelogging" THEN LoggingConfigure(outcome)
         ELSE CommonConfigure(outcome)
    /\ UNCHANGED <<script, argv, config, common, answer, dir0, compiler_version>>

\* vnelogging main, lines 371-373, with build_project
LoggingBuild(outcome) ==
    IF config.action \in {"build", "configure_and_build", "test"}
    THEN /\ calls' = Call("build", outcome)
         /\ build_dir' = Written(build_dir, outcome, "binaries")
         /\ CASE outcome = "zero" -> /\ pc' = "finish"
                                     /\ UNCHANGED <<exitCode, msg, raised>>
              [] outcome = "nonzero" -> Exit(1, "build_failed", "none")
              [] OTHER -> Exit(1, "traceback", "FileNotFoundError")
    ELSE /\ pc' = "finish"
         /\ UNCHANGED <<calls, build_dir, exitCode, msg, raised>>

\* vnecommon main, lines 116-118
CommonBuild(outcome) ==
    /\ calls' = Call("build", outcome)
    /\ build_dir' = Written(build_dir, outcome, "binaries")
    /\ CASE outcome = "zero" -> /\ pc' = "finish"
                                /\ UNCHANGED <<exitCode, msg, raised>>
         [] outcome = "nonzero" -> Exit(1, "build_failed", "none")
         [] OTHER -> Exit(1, "traceback", "FileNotFoundError")

Build ==
    /\ pc = "build"
    /\ \E outcome \in ToolOutcomes :
         IF script = "vnelogging" THEN LoggingBuild(outcome)
         ELSE CommonBuild(outcome)
    /\ UNCHANGED <<script, argv, config, common, answer, dir0, compiler_version>>

\* vnelogging main, lines 375-380, with run_tests: its result is dropped, and
\* main returns (status 0) unless ctest could not be started
LoggingFinish(outcome) ==
    IF config.action = "test"
    THEN /\ calls' = Call("test", outcome)
         /\ CASE outcome = "zero" -> Exit(0, "completed", "none")
              [] outcome = "nonzero" -> Exit(0, "completed_after_test_warning", "none")
              [] OTHER -> Exit(1, "traceback", "FileNotFoundError")
    ELSE /\ Exit(0, "completed", "none")
         /\ UNCHANGED calls

\* vnecommon main, lines 120-124: return 0
CommonFinish ==
    /\ Exit(0, "completed", "none")
    /\ UNCHANGED calls

Finish ==
    /\ pc = "finish"
    /\ \E outcome \in ToolOutcomes :
         IF script = "vnelogging" THEN LoggingFinish(outcome) ELSE CommonFinish
    /\ UNCHANGED <<script, argv, config, common, answer, build_dir, dir0,
                   compiler_version>>

(* --------------------------- specification ----------------------------- *)

Next ==
    \/ ParseArgs
    \/ PromptBuildType
    \/ PromptAction
    \/ PromptClean
    \/ PromptJobs
    \/ PromptProceed
    \/ CheckVisualStudioEnv
    \/ CheckCmake
    \/ GetCompilerVersion
    \/ PrepareBuildDir
    \/ Configure
    \/ Build
    \/ Finish

Spec == Init /\ [][Next]_vars

(* ------------------------ vocabulary of the claims --------------------- *)

Logging == script = "vnelogging"

Terminated == pc = "exit"

Invoked(tool) == \E i \in DOMAIN calls : calls[i].tool = tool

Times(tool) == Cardinality({i \in DOMAIN calls : calls[i].tool = tool})

\* configure, build and test in the order they were invoked
BuildSteps ==
    LET IsStep(c) == c.tool \in {"configure", "build", "test"}
        steps == SelectSeq(calls, IsStep)
    IN  [i \in DOMAIN steps |-> steps[i].tool]

\* the vnelogging checks of cl and of cmake have both been made and passed
PrerequisitesPresent ==
    /\ Logging
    /\ Len(calls) >= 2
    /\ calls[1].tool = "cl" /\ calls[1].outcome # "FileNotFoundError"
    /\ calls[2].tool = "cmake_version" /\ calls[2].outcome = "zero"

\* one of the two vnelogging checks has been made and has failed
PrerequisiteMissing ==
    /\ Logging
    /\ \/ Len(calls) >= 1 /\ calls[1].tool = "cl"
          /\ calls[1].outcome = "FileNotFoundError"
       \/ Len(calls) >= 2 /\ calls[2].tool = "cmake_version"
          /\ calls[2].outcome # "zero"

NoStepFailed == \A i \in DOMAIN calls : calls[i].outcome = "zero" \/ calls[i].tool = "cl"

CleanRequested == IF Logging THEN config.clean_build ELSE argv.clean

PromptPcs ==
    {"prompt_build_type", "prompt_action", "prompt_clean", "prompt_jobs",
     "prompt_proceed"}

\* flag parsing and (when asked for) interactive_mode are over and the run goes on
SetupDone ==
    /\ Logging
    /\ pc \notin PromptPcs \cup {"parse_args"}
    /\ msg \notin {"usage_error", "build_cancelled"}

(* -------------------------------- C1 ----------------------------------- *)

\* C1: in vnelogging, a finished run whose prerequisites are present never
\* invoked build or test when the action is "configure", and invoked exactly
\* configure, build, test, in that order, when the action is "test" and no
\* step failed.
C1_ActionSelectsSteps ==
    (Terminated /\ PrerequisitesPresent) =>
        /\ config.action = "configure" => ~Invoked("build") /\ ~Invoked("test")
        /\ (config.action = "test" /\ NoStepFailed) =>
               BuildSteps = <<"configure", "build", "test">>

(* -------------------------------- C2 ----------------------------------- *)

\* C2: in both scripts a configure or build invocation that does not exit
\* with zero is the last invocation of the run, the run has ended at once
\* with exit code 1, and configure, build and test are each invoked at most
\* once.
C2_FailureAbortsAtOnce ==
    /\ \A i \in DOMAIN calls :
         (calls[i].tool \in {"configure", "build"} /\ calls[i].outcome # "zero") =>
             i = Len(calls) /\ pc = "exit" /\ exitCode = <<1>>
    /\ \A tool \in {"configure", "build", "test"} : Times(tool) <= 1

\* a run whose configure step succeeded and whose build step failed
C2_Witness ==
    /\ pc = "exit" /\ exitCode = <<1>> /\ msg = "build_failed"
    /\ BuildSteps = <<"configure", "build">>
    /\ calls[Len(calls)].outcome = "nonzero"

(* -------------------------------- C3 ----------------------------------- *)

C4_CleanRecreatesDirectory ==
    /\ Invoked("configure") =>
         /\ exists(build_dir)
         /\ (CleanRequested /\ exists(dir0)) => "stale" \notin build_dir
         /\ (~CleanRequested /\ exists(dir0)) => "stale" \in build_dir
    /\ (/\ Terminated /\ CleanRequested /\ exists(dir0)
        /\ Logging => PrerequisitesPresent)
       => exists(build_dir) /\ "stale" \notin build_dir

(* -------------------------------- C5 ----------------------------------- *)

\* the value a flag stands for: the one given, or the documented default
FlagValue(flag, default) == IF flag = <<>> THEN default ELSE flag[1]

FlagsCopied ==
    /\ config.build_type = FlagValue(argv.build_type, "Debug")
    /\ config.action = FlagValue(argv.action, "configure_and_build")
    /\ config.jobs = (IF argv.jobs = <<>> THEN 10 ELSE int(argv.jobs[1]))
    /\ config.clean_build = argv.clean

\* C5 as stated: once setup is over the configuration record equals the
\* flags supplied, or the defaults for the flags omitted.
C5_ConfigEqualsFlags ==
    SetupDone => FlagsCopied /\ config.interactive = argv.interactive

\* C5 as amended: the interactive field always equals the flag; the other
\* four fields equal the flags (or defaults) when --interactive was not given.
C5_ConfigEqualsFlagsWithoutInteractive ==
    SetupDone => /\ config.interactive = argv.interactive
                 /\ ~argv.interactive => FlagsCopied

\* -t Release -j 3 --clean, no --interactive, after setup
C5_Witness ==
    /\ SetupDone /\ ~argv.interactive
    /\ argv.build_type = <<"Release">> /\ argv.jobs = << <<"3">> >> /\ argv.clean
    /\ argv.action = <<>>
    /\ config.jobs = 3 /\ config.action = "configure_and_build"

(* -------------------------------- C6 ----------------------------------- *)

JobsKept ==
    /\ config'.jobs = config.jobs
    /\ pc' = "prompt_proceed"
    /\ exitCode' = <<>>
    /\ raised' = "none"

\* C6: at the parallel-jobs prompt an answer that is empty or that int()
\* rejects leaves config.jobs as it was, and the run goes on to the
\* confirmation prompt without ending or raising.
C6_InvalidJobsAnswerKeepsJobs ==
    [][(pc = "prompt_jobs" /\ (answer' = <<>> \/ ~int_ok(answer'))) => JobsKept]_vars

\* -j 3 on the command line, then x typed at the prompt
C6_Witness ==
    /\ pc = "prompt_proceed" /\ answer = <<"x">> /\ msg = "invalid_input"
    /\ argv.jobs = << <<"3">> >> /\ config.jobs = 3

(* -------------------------------- C7 ----------------------------------- *)

\* C7: in vnelogging, once the check of cl or of cmake has failed the run
\* has ended with exit code 1, the build output directory is as it was
\* found, and configure, build and test have not been invoked.
C7_MissingPrerequisiteIsFatal ==
    PrerequisiteMissing =>
        /\ pc = "exit" /\ exitCode = <<1>>
        /\ build_dir = dir0
        /\ ~Invoked("configure") /\ ~Invoked("build") /\ ~Invoked("test")

\* cl missing, Visual Studio and VsDevCmd.bat both found, --clean given
\* over an existing directory
C7_Witness ==
    /\ PrerequisiteMissing /\ msg = "run_from_developer_prompt"
    /\ config.clean_build /\ dir0 = {"stale"}

(* -------------------------------- C8 ----------------------------------- *)

\* C8: config.jobs is a positive integer in every reachable state.
C8_JobsIsPositive == config.jobs >= 1

(* -------------------------------- C9 ----------------------------------- *)

VersionIds == {"19.38.33130", "2022", "2019", "unknown"}

\* C9: once the checks of cl and cmake have passed and get_compiler_version
\* has been called, a version identifier has been returned and the run has
\* gone on to the directory and configure steps instead of ending there.
C9_CompilerVersionNeverAborts ==
    (PrerequisitesPresent /\ pc # "get_compiler_version") =>
        /\ compiler_version \in VersionIds
        /\ raised # "ValueError"
        /\ pc \in {"build_dir", "configure", "build", "finish"} \/ Invoked("configure")

(* -------------------------------- C10 ---------------------------------- *)

AnsweredBuildType ==
    CASE answer' = <<"2">> -> "Release"
      [] answer' = <<"3">> -> "RelWithDebInfo"
      [] answer' = <<"4">> -> "MinSizeRel"
      [] OTHER -> "Debug"

AnsweredAction ==
    CASE answer' = <<"1">> -> "configure"
      [] answer' = <<"3">> -> "test"
      [] OTHER -> "configure_and_build"

AnsweredClean == argv.clean \/ answer' \in {<<"y">>, <<"Y">>}

ChoiceStands ==
    /\ config'.build_type = config.build_type
    /\ config'.action = config.action
    /\ config.action # "build"

Cancelled ==
    /\ pc' = "exit"
    /\ exitCode' = <<0>>
    /\ calls' = <<>>
    /\ build_dir' = dir0

\* C10: with --interactive the build type and the action follow from the
\* answers alone (anything but 2, 3, 4 gives Debug; anything but 1, 3 gives
\* configure_and_build; "build" is never selected), the clean prompt can
\* only switch clean_build on, and n at the confirmation ends the run with
\* exit code 0, no tool invoked and the directory as it was found.
C10_InteractiveAnswersDecide ==
    /\ [][pc = "prompt_build_type" => config'.build_type = AnsweredBuildType]_vars
    /\ [][pc = "prompt_action" => config'.action = AnsweredAction]_vars
    /\ [][pc = "prompt_clean" => config'.clean_build = AnsweredClean]_vars
    /\ [][(pc \in {"prompt_clean", "prompt_jobs", "prompt_proceed"}) => ChoiceStands]_vars
    /\ [][(pc = "prompt_proceed" /\ answer' \in {<<"n">>, <<"N">>}) => Cancelled]_vars

\* -t Release -a build --clean --interactive, Enter at the first three
\* prompts, n at the confirmation
C10_Witness ==
    /\ pc = "exit" /\ msg = "build_cancelled" /\ exitCode = <<0>>
    /\ argv.build_type = <<"Release">> /\ config.build_type = "Debug"
    /\ argv.action = <<"build">> /\ config.action = "configure_and_build"
    /\ argv.clean /\ config.clean_build
    /\ answer = <<"n">>

====
